---- MODULE Spec2Model ----
(***************************************************************************)
(* Model of the weather MCP server (mcp_weather.py): the retrying fetcher  *)
(* make_nws_request and the two tools built on it, get_forecast and        *)
(* get_alerts.  Every call is a coroutine; its suspension points are the   *)
(* awaited GET and the awaited backoff sleep, so one action of the model   *)
(* runs a call from one suspension point to the next.                      *)
(***************************************************************************)
EXTENDS Integers, Sequences, FiniteSets, TLC

(***************************************************************************)
(* Bounds of the model.                                                    *)
(***************************************************************************)
\* largest max_retries a direct caller of make_nws_request passes
MaxRetriesBound == 3

\* largest number of periods a forecast response carries
MaxPeriods == 7

\* identities of the calls (coroutines) the model can run
Calls == {1, 2}

(***************************************************************************)
(* Python values.  A value is a record tagged by its type; None, str, int, *)
(* list and dict are the types a decoded JSON body is made of.             *)
(***************************************************************************)
None == [t |-> "null"]
JStr(s) == [t |-> "str", s |-> s]
JNum(n) == [t |-> "num", n |-> n]
JList(l) == [t |-> "list", l |-> l]
JDict(d) == [t |-> "dict", d |-> d]
EmptyDict == JDict([k \in {} |-> None])
EmptyList == JList(<<>>)

\* a response body that response.json() cannot decode
Undecodable == [t |-> "invalid"]

\* a dict literal, from its <<key, value>> pairs
Dict(pairs) ==
    JDict([k \in {pairs[i][1] : i \in DOMAIN pairs} |->
              pairs[CHOOSE i \in DOMAIN pairs : pairs[i][1] = k][2]])

\* an exception in flight, in place of a value
Raise(exc, msg) == [t |-> "raise", exc |-> exc, msg |-> msg]

TypeName(v) ==
    CASE v.t = "null" -> "NoneType"
      [] v.t = "str"  -> "str"
      [] v.t = "num"  -> "int"
      [] v.t = "list" -> "list"
      [] OTHER        -> "dict"

\* v.get(k, default); an exception raised while computing v goes on
Get(v, k, default) ==
    IF v.t = "raise" THEN v
    ELSE IF v.t = "dict"
         THEN IF k \in DOMAIN v.d THEN v.d[k] ELSE default
         ELSE Raise("AttributeError",
                    "'" \o TypeName(v) \o "' object has no attribute 'get'")

\* v[k] for a string key k
Index(v, k) ==
    CASE v.t = "raise" -> v
      [] v.t = "dict"  -> IF k \in DOMAIN v.d THEN v.d[k]
                          ELSE Raise("KeyError", "'" \o k \o "'")
      [] v.t = "str"   -> Raise("TypeError", "string indices must be integers, not 'str'")
      [] v.t = "list"  -> Raise("TypeError", "list indices must be integers or slices, not str")
      [] OTHER         -> Raise("TypeError",
                                "'" \o TypeName(v) \o "' object is not subscriptable")

\* the characters of a string, as the list iteration yields
Chars(s) == [i \in 1..Len(s) |-> JStr(SubSeq(s, i, i))]

\* the keys of a dict in the order iteration yields them
RECURSIVE KeySeq(_)
KeySeq(ks) ==
    IF ks = {} THEN <<>>
    ELSE LET k == CHOOSE x \in ks : TRUE IN <<JStr(k)>> \o KeySeq(ks \ {k})

\* the items `for x in v` runs over, as a list, or the exception
Iter(v) ==
    CASE v.t = "raise" -> v
      [] v.t = "list"  -> v
      [] v.t = "str"   -> JList(Chars(v.s))
      [] v.t = "dict"  -> JList(KeySeq(DOMAIN v.d))
      [] OTHER         -> Raise("TypeError",
                                "'" \o TypeName(v) \o "' object is not iterable")

\* mutant: the slice is missing, every item is kept
Slice_NoLimit(v, n) == v

\* v[:n]
Slice(v, n) ==
    CASE v.t = "raise" -> v
      [] v.t = "list"  -> JList(SubSeq(v.l, 1, IF Len(v.l) < n THEN Len(v.l) ELSE n))
      [] v.t = "str"   -> JStr(SubSeq(v.s, 1, IF Len(v.s) < n THEN Len(v.s) ELSE n))
      [] v.t = "dict"  -> Raise("KeyError", "slice(None, " \o ToString(n) \o ", None)")
      [] OTHER         -> Raise("TypeError",
                                "'" \o TypeName(v) \o "' object is not subscriptable")

\* str(v), as an f-string interpolates a value; containers are abbreviated
Str(v) ==
    CASE v.t = "null" -> "None"
      [] v.t = "str"  -> v.s
      [] v.t = "num"  -> ToString(v.n)
      [] v.t = "list" -> IF Len(v.l) = 0 THEN "[]" ELSE "[...]"
      [] OTHER        -> IF DOMAIN v.d = {} THEN "{}" ELSE "{...}"

Whitespace == {" ", "\n", "\t", "\r"}

RECURSIVE LStrip(_)
LStrip(s) ==
    IF Len(s) > 0 /\ SubSeq(s, 1, 1) \in Whitespace
    THEN LStrip(SubSeq(s, 2, Len(s))) ELSE s

RECURSIVE RStrip(_)
RStrip(s) ==
    IF Len(s) > 0 /\ SubSeq(s, Len(s), Len(s)) \in Whitespace
    THEN RStrip(SubSeq(s, 1, Len(s) - 1)) ELSE s

\* s.strip()
Strip(s) == LStrip(RStrip(s))

\* sep.join(parts)
RECURSIVE Join(_, _)
Join(sep, parts) ==
    IF Len(parts) = 0 THEN ""
    ELSE IF Len(parts) = 1 THEN parts[1]
    ELSE parts[1] \o sep \o Join(sep, Tail(parts))

\* a float with no fractional part, n.0: str(x) and format(x, ".2f")
FloatStr(n) == ToString(n) \o ".0"
Fmt2f(n) == ToString(n) \o ".00"

\* Python truthiness (the `not x` tests of the tools)
Truthy(v) ==
    CASE v.t = "null" -> FALSE
      [] v.t = "str"  -> v.s # ""
      [] v.t = "num"  -> v.n # 0
      [] v.t = "list" -> Len(v.l) > 0
      [] v.t = "dict" -> DOMAIN v.d # {}
      [] OTHER        -> TRUE

(***************************************************************************)
(* Constants of mcp_weather.py.                                            *)
(***************************************************************************)
NWS_API_BASE == "https://api.weather.gov"
DefaultMaxRetries == 3
DefaultBackoff == [num |-> 3, den |-> 2]

(***************************************************************************)
(* Upstream.  What one awaited client.get can end in: an exception raised  *)
(* by httpx / asyncio, or a response with a status code and a body.        *)
(***************************************************************************)
ErrorStatuses == {301, 400, 404, 429, 500, 501, 502, 503, 504}
OkStatuses == {200}

\* bodies in the shape of the /points response, whole or damaged
ForecastUrl == NWS_API_BASE \o "/gridpoints/LWX/97,71/forecast"

RelativeLocation ==
    Dict(<< <<"properties", Dict(<< <<"city", JStr("Washington")>>,
                                    <<"state", JStr("DC")>> >>)>> >>)

Props(pairs) == Dict(<< <<"properties", Dict(pairs)>> >>)

PointsBodies ==
    { EmptyDict,
      Dict(<< <<"properties", None>> >>),
      Dict(<< <<"properties", JStr("oops")>> >>),
      Dict(<< <<"properties", EmptyDict>> >>),
      Props(<< <<"cwa", JStr("LWX")>> >>),
      Props(<< <<"forecast", JStr(ForecastUrl)>>, <<"cwa", JStr("LWX")>>,
               <<"relativeLocation", RelativeLocation>> >>),
      Props(<< <<"forecast", JStr(ForecastUrl)>> >>),
      Props(<< <<"forecast", JStr(ForecastUrl)>>, <<"relativeLocation", None>> >>),
      Props(<< <<"forecast", JNum(5)>> >>) }

\* bodies in the shape of the forecast response
Period(i) ==
    Dict(<< <<"name", JStr("Period " \o ToString(i))>>,
            <<"temperature", JNum(70 + i)>>,
            <<"temperatureUnit", JStr("F")>>,
            <<"windSpeed", JStr("5 mph")>>,
            <<"windDirection", JStr("NW")>>,
            <<"detailedForecast", JStr("Sunny.")>> >>)

Periods(n) == [i \in 1..n |-> Period(i)]

ForecastBodies ==
    { Dict(<< <<"properties", None>> >>),
      Props(<< <<"periods", None>> >>),
      Props(<< <<"periods", JStr("soon")>> >>),
      Props(<< <<"periods", JNum(3)>> >>),
      Props(<< <<"periods", JList(<<None>>)>> >>),
      Props(<< <<"periods", JList(<<EmptyDict>>)>> >>),
      Props(<< <<"periods", JList(<<Dict(<< <<"temperature", None>>,
                                           <<"windSpeed", JStr("5 mph")>> >>)>>)>> >>) }
    \cup { Props(<< <<"periods", JList(Periods(n))>> >>) : n \in 0..MaxPeriods }

\* bodies in the shape of the alerts response
Alert(i) ==
    Dict(<< <<"properties",
              Dict(<< <<"event", JStr("Flood Warning " \o ToString(i))>>,
                      <<"areaDesc", JStr("County " \o ToString(i))>>,
                      <<"severity", JStr("Severe")>>,
                      <<"description", JStr("River rising.")>>,
                      <<"instruction", None>> >>)>> >>)

Features(v) == Dict(<< <<"features", v>> >>)

AlertsBodies ==
    { Dict(<< <<"title", JStr("alerts")>> >>),
      Features(EmptyList),
      Features(None),
      Features(JNum(5)),
      Features(JStr("x")),
      Features(JList(<<EmptyDict>>)),
      Features(JList(<<Dict(<< <<"properties", None>> >>)>>)),
      Features(JList(<<Dict(<< <<"properties", EmptyDict>> >>)>>)),
      Features(JList(<<Alert(1)>>)),
      Features(JList(<<Alert(1), Alert(2)>>)) }

\* upstream is free to answer any GET with any of these objects
JsonObjects == PointsBodies \cup ForecastBodies \cup AlertsBodies

NonObjectBodies == { Undecodable, EmptyList, JList(<<EmptyDict>>), JNum(7), JStr("ok"), None }

Exceptions == { "RequestError", "TimeoutError", "Exception" }

Outcomes ==
    [exc : Exceptions]
    \cup [status : OkStatuses, body : JsonObjects \cup NonObjectBodies]
    \cup [status : ErrorStatuses, body : {Undecodable}]

IsResponse(o) == "status" \in DOMAIN o

\* httpx refuses a URL that is not a string before anything is sent
OutcomesFor(u) == IF u.t = "str" THEN Outcomes ELSE {[exc |-> "Exception"]}

(***************************************************************************)
(* Rationals for the backoff delay: backoff_factor ** attempt.             *)
(***************************************************************************)
RECURSIVE Pow(_, _)
Pow(b, e) == IF e = 0 THEN 1 ELSE b * Pow(b, e - 1)

\* mutant: linear backoff, backoff_factor * attempt
BackoffDelay_Linear(backoff_factor, attempt) ==
    [num |-> backoff_factor.num * attempt, den |-> backoff_factor.den]

\* line 71: backoff_factor ** attempt
BackoffDelay(backoff_factor, attempt) ==
    [num |-> Pow(backoff_factor.num, attempt), den |-> Pow(backoff_factor.den, attempt)]

RatLess(a, b) == a.num * b.den < b.num * a.den

BackoffFactors == { [num |-> 3, den |-> 2], [num |-> 2, den |-> 1],
                    [num |-> 1, den |-> 1], [num |-> 1, den |-> 2] }

(***************************************************************************)
(* State.                                                                  *)
(***************************************************************************)
VARIABLES
    tool,     \* tool[c]: the entry point call c runs, "none" before it starts
    tpc,      \* tpc[c]: where the tool coroutine of call c stands
    args,     \* args[c]: the arguments of the tool
    nws,      \* nws[c]: the make_nws_request invocation call c is in
    fetched,  \* fetched[c]: the fetches call c has awaited, each with what it returned
    points_data,  \* points_data[c]: local of get_forecast
    result,   \* result[c]: what the tool returned, or the exception it raised
    bridge    \* bridge[c]: the request of the HTTP proxy (main.py) behind call c

vars == <<tool, tpc, args, nws, fetched, points_data, result, bridge>>

IdleFetch ==
    [pc |-> "idle", url |-> None, max_retries |-> 0,
     backoff_factor |-> DefaultBackoff, attempt |-> 0, clients |-> 0,
     log |-> <<>>, logged |-> <<>>, ret |-> None]

NoResult == [kind |-> "pending"]

NoResponse == [status |-> 0]

IdleBridge ==
    [pc |-> "idle", session |-> "none", sent |-> 0, response |-> NoResponse]

Init ==
    /\ tool = [c \in Calls |-> "none"]
    /\ tpc = [c \in Calls |-> "idle"]
    /\ args = [c \in Calls |-> <<>>]
    /\ nws = [c \in Calls |-> IdleFetch]
    /\ fetched = [c \in Calls |-> <<>>]
    /\ points_data = [c \in Calls |-> None]
    /\ result = [c \in Calls |-> NoResult]
    /\ bridge = [c \in Calls |-> IdleBridge]

(***************************************************************************)
(* make_nws_request.  f is the record of one invocation.                   *)
(***************************************************************************)
\* mutant: every 4xx and 5xx status is retried
TransientStatus_Any4xx5xx(status) == status >= 400

\* mutant: 429 is left out of the retried statuses
TransientStatus_No429(status) == status \in {500, 502, 503, 504}

\* line 59: the statuses the fetcher retries
TransientStatus(status) == status \in {429, 500, 502, 503, 504}

\* line 42: raise_for_status raises for every status that is not 2xx
RaisesForStatus(status) == ~(status \in 200..299)

\* mutant: the isinstance check is missing, any decoded body is returned
ParseBody_NoTypeCheck(body) == IF body.t = "invalid" THEN None ELSE body

\* lines 44-51: the decoded body is returned when it is a dict, else None
ParseBody(body) == IF body.t = "dict" THEN body ELSE None

\* lines 50-73: a record written to the module's logger
LogMsg(f, level, msg) ==
    [f EXCEPT !.logged = Append(@, [level |-> level, msg |-> msg])]

\* lines 48, 51, 63, 68: a return statement inside the loop
Return(f, value) ==
    [f EXCEPT !.pc = "returned", !.ret = value,
              !.log = Append(@, [op |-> "return"])]

\* line 71: await asyncio.sleep(backoff_factor ** attempt)
Backoff(f) ==
    [f EXCEPT !.pc = "sleep",
              !.log = Append(@, [op |-> "sleep", attempt |-> f.attempt,
                                 delay |-> BackoffDelay(f.backoff_factor, f.attempt)])]

\* lines 40-41: open a client and await client.get
IssueGet(f, k) ==
    [f EXCEPT !.pc = "get", !.attempt = k, !.clients = @ + 1,
              !.log = Append(@, [op |-> "GET", attempt |-> k])]

\* mutant: range(1, max_retries + 2), one attempt too many
LoopHead_OffByOne(f, k) ==
    IF k <= f.max_retries + 1
    THEN IssueGet(f, k)
    ELSE [f EXCEPT !.pc = "returned", !.ret = None,
                   !.log = Append(@, [op |-> "exhausted"])]

\* line 38 and lines 73-74: the loop head, and the exit of the loop
LoopHead(f, k) ==
    IF k <= f.max_retries
    THEN IssueGet(f, k)
    ELSE LogMsg([f EXCEPT !.pc = "returned", !.ret = None,
                          !.log = Append(@, [op |-> "exhausted"])],
                "error",
                "Exceeded max retries (" \o ToString(f.max_retries)
                \o ") for NWS URL: " \o Str(f.url))

\* mutant: the catch-all clause logs and falls through to the backoff sleep
OnException_RetryAll(f, exc) == Backoff(f)

\* lines 53-68: the except clauses
OnException(f, exc) ==
    CASE exc = "RequestError" ->
            Backoff(LogMsg(f, "warning", "Network error contacting NWS: " \o exc))
      [] exc = "TimeoutError" ->
            Backoff(LogMsg(f, "warning", "NWS request timed out."))
      [] OTHER ->
            Return(LogMsg(f, "error", "Unexpected error fetching NWS data: " \o exc), None)

\* mutant: the error branch returns without logging the status
OnStatusError_NoLog(f, status) ==
    IF TransientStatus(status) THEN Backoff(f) ELSE Return(f, None)

\* lines 56-63: except httpx.HTTPStatusError
OnStatusError(f, status) ==
    IF TransientStatus(status)
    THEN Backoff(LogMsg(f, "warning", "NWS transient error (status "
                                      \o ToString(status) \o "), retrying..."))
    ELSE Return(LogMsg(f, "error", "NWS API returned error " \o ToString(status) \o ": "),
                None)

\* mutant: the client is closed by hand after a good response only, an
\* exception out of client.get leaves it open
AfterGet_LeakOnError(f, o) ==
    LET h == [f EXCEPT !.log = Append(@, [op |-> "resp", attempt |-> f.attempt, out |-> o])]
        g == [h EXCEPT !.clients = @ - 1] IN
    IF IsResponse(o)
    THEN IF RaisesForStatus(o.status)
         THEN OnStatusError(h, o.status)
         ELSE Return(g, ParseBody(o.body))
    ELSE OnException(h, o.exc)

\* mutant: `return data` is missing, a decoded object falls through to the
\* backoff sleep
AfterGet_NoShortCircuit(f, o) ==
    LET g == [f EXCEPT !.clients = @ - 1,
                       !.log = Append(@, [op |-> "resp", attempt |-> f.attempt, out |-> o])] IN
    IF IsResponse(o)
    THEN IF RaisesForStatus(o.status)
         THEN OnStatusError(g, o.status)
         ELSE IF ParseBody(o.body) = None THEN Return(g, None) ELSE Backoff(g)
    ELSE OnException(g, o.exc)

\* lines 41-71: what follows the awaited GET, the client being closed on
\* the way out of the async with block
AfterGet(f, o) ==
    LET g == [f EXCEPT !.clients = @ - 1,
                       !.log = Append(@, [op |-> "resp", attempt |-> f.attempt, out |-> o])] IN
    IF IsResponse(o)
    THEN IF RaisesForStatus(o.status)
         THEN OnStatusError(g, o.status)
         ELSE IF ParseBody(o.body) = None
              THEN Return(LogMsg(g, "warning", "Failed to parse NWS response JSON: "
                                               \o "Invalid response format"), None)
              ELSE Return(g, ParseBody(o.body))
    ELSE OnException(g, o.exc)

\* lines 15-41: the call, up to its first suspension point
StartFetch(u, mr, bf) ==
    LoopHead([IdleFetch EXCEPT !.url = u, !.max_retries = mr, !.backoff_factor = bf], 1)

(***************************************************************************)
(* Actions of the fetcher.                                                 *)
(***************************************************************************)
\* the awaited GET of call c ends with outcome o
RecvGet(c) ==
    /\ nws[c].pc = "get"
    /\ \E o \in OutcomesFor(nws[c].url) :
          nws' = [nws EXCEPT ![c] = AfterGet(nws[c], o)]
    /\ UNCHANGED <<tool, tpc, args, fetched, points_data, result, bridge>>

\* the same step, upstream answering from the outcomes in outs only
RecvGetAmong(c, outs) ==
    /\ nws[c].pc = "get"
    /\ \E o \in OutcomesFor(nws[c].url) \cap outs :
          nws' = [nws EXCEPT ![c] = AfterGet(nws[c], o)]
    /\ UNCHANGED <<tool, tpc, args, fetched, points_data, result, bridge>>

\* the backoff sleep of call c ends: the loop goes on
WakeUp(c) ==
    /\ nws[c].pc = "sleep"
    /\ nws' = [nws EXCEPT ![c] = LoopHead(nws[c], nws[c].attempt + 1)]
    /\ UNCHANGED <<tool, tpc, args, fetched, points_data, result, bridge>>

\* a direct call of make_nws_request
CallFetch(c) ==
    /\ tool[c] = "none"
    /\ \E mr \in 0..MaxRetriesBound, bf \in BackoffFactors :
          LET u == JStr(NWS_API_BASE \o "/points/39.0,-77.0") IN
          /\ tool' = [tool EXCEPT ![c] = "make_nws_request"]
          /\ args' = [args EXCEPT ![c] = <<u, mr, bf>>]
          /\ nws' = [nws EXCEPT ![c] = StartFetch(u, mr, bf)]
    /\ tpc' = [tpc EXCEPT ![c] = "await"]
    /\ UNCHANGED <<fetched, points_data, result, bridge>>

\* make_nws_request hands its value back to the direct caller
FetchReturn(c) ==
    /\ tool[c] = "make_nws_request"
    /\ tpc[c] = "await"
    /\ nws[c].pc = "returned"
    /\ tpc' = [tpc EXCEPT ![c] = "done"]
    /\ result' = [result EXCEPT ![c] = [kind |-> "return", value |-> nws[c].ret]]
    /\ fetched' = [fetched EXCEPT ![c] = Append(@, [url |-> nws[c].url, ret |-> nws[c].ret])]
    /\ UNCHANGED <<tool, args, nws, points_data, bridge>>

NextFetch == \/ CallFetch(1)
             \/ RecvGet(1)
             \/ WakeUp(1)
             \/ FetchReturn(1)

SpecFetch == Init /\ [][NextFetch]_vars

\* the event loop runs every coroutine that is ready, every GET ends (by a
\* response, an error or the timeout) and every sleep ends
FairSpecFetch == SpecFetch /\ WF_vars(NextFetch)

(***************************************************************************)
(* Outcome of a stretch of tool code: it returns a text, raises, or calls  *)
(* make_nws_request and suspends.                                          *)
(***************************************************************************)
ReturnText(text) == [act |-> "return", text |-> text]
Raises(e) == [act |-> "raise", exc |-> e.exc, msg |-> e.msg]
Fetch(u) == [act |-> "fetch", url |-> u]

\* a list comprehension: the list of the items, or the first exception
Collect(items) ==
    IF \E i \in DOMAIN items : items[i].t = "raise"
    THEN items[CHOOSE i \in DOMAIN items :
                  /\ items[i].t = "raise"
                  /\ \A j \in 1..(i - 1) : items[j].t # "raise"]
    ELSE JList(items)

\* glyphs of the output, written in ASCII
SunGlyph == "<sun>"
Bullet == "<bullet>"
Degree == "<deg>"
PinGlyph == "<pin>"

(***************************************************************************)
(* get_forecast.                                                           *)
(***************************************************************************)
\* lines 171-174: the handler of the try block
InternalError(e) ==
    ReturnText("Internal error fetching forecast: " \o e.msg
               \o "\n\nTraceback:\n"
               \o "Traceback (most recent call last):\n" \o e.exc \o ": " \o e.msg \o "\n")

\* mutant: the try block has no handler
Guarded_NoHandler(out) == out

\* lines 121, 171: the try block around the body of get_forecast
Guarded(out) == IF out.act = "raise" THEN InternalError(out) ELSE out

\* line 123
PointsUrl(latitude, longitude) ==
    JStr(NWS_API_BASE \o "/points/" \o FloatStr(latitude) \o "," \o FloatStr(longitude))

\* mutant: the test of forecast_url is missing, whatever .get gave is fetched
AfterPoints_NoUrlCheck(latitude, longitude, pd) ==
    IF ~Truthy(pd)
    THEN ReturnText("Unable to fetch forecast grid point for ("
                    \o Fmt2f(latitude) \o ", " \o Fmt2f(longitude) \o ").")
    ELSE LET forecast_url == Get(Get(pd, "properties", EmptyDict), "forecast", None) IN
         IF forecast_url.t = "raise" THEN Raises(forecast_url)
         ELSE Fetch(forecast_url)

\* lines 126-137: from the return of the points fetch to the forecast fetch
AfterPoints(latitude, longitude, pd) ==
    IF ~Truthy(pd)
    THEN ReturnText("Unable to fetch forecast grid point for ("
                    \o Fmt2f(latitude) \o ", " \o Fmt2f(longitude) \o ").")
    ELSE LET forecast_url == Get(Get(pd, "properties", EmptyDict), "forecast", None) IN
         IF forecast_url.t = "raise" THEN Raises(forecast_url)
         ELSE IF ~Truthy(forecast_url)
         THEN LET office == Get(Get(pd, "properties", EmptyDict), "cwa",
                                JStr("Unknown office")) IN
              IF office.t = "raise" THEN Raises(office)
              ELSE ReturnText("Forecast URL missing in NWS response. (Reporting office: "
                              \o Str(office) \o ")")
         ELSE Fetch(forecast_url)

\* lines 150-162: one period of the summary
FormatPeriod(p) ==
    IF p.t # "dict" THEN Get(p, "name", JStr("Unknown period"))
    ELSE LET name == Get(p, "name", JStr("Unknown period"))
             temp == Get(p, "temperature", None)
             unit == Get(p, "temperatureUnit", JStr(""))
             wind == Strip(Str(Get(p, "windSpeed", JStr(""))) \o " "
                           \o Str(Get(p, "windDirection", JStr(""))))
             details == Get(p, "detailedForecast", JStr("No details available."))
         IN JStr(Strip(SunGlyph \o " **" \o Str(name) \o "**\n"
                       \o Bullet \o " Temperature: " \o Str(temp) \o Degree \o Str(unit) \o "\n"
                       \o Bullet \o " Wind: " \o wind \o "\n"
                       \o Bullet \o " Forecast: " \o Str(details)))

\* lines 148-162: the loop over periods[:5]
FormatPeriods(periods) ==
    LET items == Iter(Slice(periods, 5)) IN
    IF items.t = "raise" THEN items
    ELSE Collect([i \in DOMAIN items.l |-> FormatPeriod(items.l[i])])

\* lines 138-169: from the return of the forecast fetch to the end
AfterForecast(pd, forecast_data) ==
    IF ~Truthy(forecast_data)
    THEN ReturnText("Unable to fetch detailed forecast.")
    ELSE LET periods == Get(Get(forecast_data, "properties", EmptyDict), "periods", EmptyList) IN
         IF periods.t = "raise" THEN Raises(periods)
         ELSE IF ~Truthy(periods)
         THEN ReturnText("Forecast data is empty or malformed.")
         ELSE LET formatted == FormatPeriods(periods) IN
              IF formatted.t = "raise" THEN Raises(formatted)
              ELSE LET location == Get(Get(pd, "properties", EmptyDict),
                                       "relativeLocation", EmptyDict)
                       city == Get(Get(location, "properties", EmptyDict), "city", JStr(""))
                       state == Get(Get(location, "properties", EmptyDict), "state", JStr(""))
                   IN IF city.t = "raise" THEN Raises(city)
                      ELSE IF state.t = "raise" THEN Raises(state)
                      ELSE LET header == Strip(PinGlyph \o " Forecast for " \o Str(city)
                                               \o ", " \o Str(state)) IN
                           ReturnText(header \o "\n\n"
                                      \o Join("\n\n---\n\n",
                                              [i \in DOMAIN formatted.l |-> formatted.l[i].s]))

(***************************************************************************)
(* get_alerts.                                                             *)
(***************************************************************************)
\* lines 76-85
format_alert(feature) ==
    LET props == Index(feature, "properties")
        event == Get(props, "event", JStr("Unknown"))
    IN IF event.t = "raise" THEN event
       ELSE JStr("\n        Event: " \o Str(event)
                 \o "\n        Area: " \o Str(Get(props, "areaDesc", JStr("Unknown")))
                 \o "\n        Severity: " \o Str(Get(props, "severity", JStr("Unknown")))
                 \o "\n        Description: "
                 \o Str(Get(props, "description", JStr("No description available")))
                 \o "\n        Instructions: "
                 \o Str(Get(props, "instruction", JStr("No specific instructions provided")))
                 \o "\n        ")

\* line 95
AlertsUrl(state) == JStr(NWS_API_BASE \o "/alerts/active/area/" \o state)

\* mutant: the test for an empty 'features' is missing
AfterAlerts_NoEmptyCheck(data) ==
    IF ~Truthy(data) \/ ~("features" \in DOMAIN data.d)
    THEN ReturnText("Unable to fetch alerts or no alerts found.")
    ELSE LET items == Iter(data.d["features"]) IN
         IF items.t = "raise" THEN Raises(items)
         ELSE LET alerts == Collect([i \in DOMAIN items.l |-> format_alert(items.l[i])]) IN
              IF alerts.t = "raise" THEN Raises(alerts)
              ELSE ReturnText(Join("\n---\n", [i \in DOMAIN alerts.l |-> alerts.l[i].s]))

\* lines 98-105: from the return of the fetch to the end
AfterAlerts(data) ==
    IF ~Truthy(data) \/ ~("features" \in DOMAIN data.d)
    THEN ReturnText("Unable to fetch alerts or no alerts found.")
    ELSE IF ~Truthy(data.d["features"])
    THEN ReturnText("No active alerts for this state.")
    ELSE LET items == Iter(data.d["features"]) IN
         IF items.t = "raise" THEN Raises(items)
         ELSE LET alerts == Collect([i \in DOMAIN items.l |-> format_alert(items.l[i])]) IN
              IF alerts.t = "raise" THEN Raises(alerts)
              ELSE ReturnText(Join("\n---\n", [i \in DOMAIN alerts.l |-> alerts.l[i].s]))

(***************************************************************************)
(* Actions of the tools.                                                   *)
(***************************************************************************)
Latitudes == {39, 42}
Longitudes == {-77}
States == {"CA", "NY"}

\* what a finished stretch of tool code leaves in result
Finish(out) ==
    IF out.act = "return" THEN [kind |-> "return", text |-> out.text]
    ELSE [kind |-> "raise", exc |-> out.exc, msg |-> out.msg]

\* the completed fetch of call c, as the tool sees it
Completed(c) == [url |-> nws[c].url, ret |-> nws[c].ret]

\* lines 121-124: get_forecast runs up to the await of the points fetch
ForecastCalled(c, latitude, longitude) ==
    /\ args' = [args EXCEPT ![c] = [latitude |-> latitude, longitude |-> longitude]]
    /\ nws' = [nws EXCEPT ![c] =
                  StartFetch(PointsUrl(latitude, longitude),
                             DefaultMaxRetries, DefaultBackoff)]
    /\ tool' = [tool EXCEPT ![c] = "get_forecast"]
    /\ tpc' = [tpc EXCEPT ![c] = "await_points"]

\* lines 121-124: get_forecast is called and awaits the points fetch
CallForecast(c) ==
    /\ tool[c] = "none"
    /\ \E latitude \in Latitudes, longitude \in Longitudes :
          ForecastCalled(c, latitude, longitude)
    /\ UNCHANGED <<fetched, points_data, result, bridge>>

\* mutant: points_data is a module-level global, shared by all the calls
ForecastPoints_SharedPointsData(c) ==
    /\ tool[c] = "get_forecast"
    /\ tpc[c] = "await_points"
    /\ nws[c].pc = "returned"
    /\ points_data' = [d \in Calls |-> nws[c].ret]
    /\ fetched' = [fetched EXCEPT ![c] = Append(@, Completed(c))]
    /\ LET out == Guarded(AfterPoints(args[c].latitude, args[c].longitude, nws[c].ret)) IN
       IF out.act = "fetch"
       THEN /\ nws' = [nws EXCEPT ![c] =
                          StartFetch(out.url, DefaultMaxRetries, DefaultBackoff)]
            /\ tpc' = [tpc EXCEPT ![c] = "await_forecast"]
            /\ UNCHANGED result
       ELSE /\ result' = [result EXCEPT ![c] = Finish(out)]
            /\ tpc' = [tpc EXCEPT ![c] = "done"]
            /\ UNCHANGED nws
    /\ UNCHANGED <<tool, args, bridge>>

\* lines 124-137: the points fetch has returned
ForecastPoints(c) ==
    /\ tool[c] = "get_forecast"
    /\ tpc[c] = "await_points"
    /\ nws[c].pc = "returned"
    /\ points_data' = [points_data EXCEPT ![c] = nws[c].ret]
    /\ fetched' = [fetched EXCEPT ![c] = Append(@, Completed(c))]
    /\ LET out == Guarded(AfterPoints(args[c].latitude, args[c].longitude, nws[c].ret)) IN
       IF out.act = "fetch"
       THEN /\ nws' = [nws EXCEPT ![c] =
                          StartFetch(out.url, DefaultMaxRetries, DefaultBackoff)]
            /\ tpc' = [tpc EXCEPT ![c] = "await_forecast"]
            /\ UNCHANGED result
       ELSE /\ result' = [result EXCEPT ![c] = Finish(out)]
            /\ tpc' = [tpc EXCEPT ![c] = "done"]
            /\ UNCHANGED nws
    /\ UNCHANGED <<tool, args, bridge>>

\* lines 137-169: the forecast fetch has returned
ForecastPeriods(c) ==
    /\ tool[c] = "get_forecast"
    /\ tpc[c] = "await_forecast"
    /\ nws[c].pc = "returned"
    /\ fetched' = [fetched EXCEPT ![c] = Append(@, Completed(c))]
    /\ result' = [result EXCEPT ![c] =
                     Finish(Guarded(AfterForecast(points_data[c], nws[c].ret)))]
    /\ tpc' = [tpc EXCEPT ![c] = "done"]
    /\ UNCHANGED <<tool, args, nws, points_data, bridge>>

\* lines 95-96: get_alerts is called and awaits its fetch
CallAlerts(c) ==
    /\ tool[c] = "none"
    /\ \E state \in States :
          /\ args' = [args EXCEPT ![c] = [state |-> state]]
          /\ nws' = [nws EXCEPT ![c] =
                        StartFetch(AlertsUrl(state), DefaultMaxRetries, DefaultBackoff)]
    /\ tool' = [tool EXCEPT ![c] = "get_alerts"]
    /\ tpc' = [tpc EXCEPT ![c] = "await_alerts"]
    /\ UNCHANGED <<fetched, points_data, result, bridge>>

\* lines 96-105: the alerts fetch has returned
AlertsFeatures(c) ==
    /\ tool[c] = "get_alerts"
    /\ tpc[c] = "await_alerts"
    /\ nws[c].pc = "returned"
    /\ fetched' = [fetched EXCEPT ![c] = Append(@, Completed(c))]
    /\ result' = [result EXCEPT ![c] = Finish(AfterAlerts(nws[c].ret))]
    /\ tpc' = [tpc EXCEPT ![c] = "done"]
    /\ UNCHANGED <<tool, args, nws, points_data, bridge>>

NextForecast == \/ CallForecast(1)
                \/ RecvGet(1)
                \/ WakeUp(1)
                \/ ForecastPoints(1)
                \/ ForecastPeriods(1)

SpecForecast == Init /\ [][NextForecast]_vars

NextAlerts == \/ CallAlerts(1)
              \/ RecvGet(1)
              \/ WakeUp(1)
              \/ AlertsFeatures(1)

SpecAlerts == Init /\ [][NextAlerts]_vars

(***************************************************************************)
(* Calls running concurrently on the event loop of the MCP server: every   *)
(* step of Next is a step of one of the calls, taken in any order.         *)
(***************************************************************************)
\* what upstream answers while several calls run
ConcurrentOutcomes ==
    { [exc |-> "RequestError"],
      [status |-> 503, body |-> Undecodable],
      [status |-> 404, body |-> Undecodable] }
    \cup [status : {200},
          body : { Props(<< <<"forecast", JStr(ForecastUrl)>>, <<"cwa", JStr("LWX")>>,
                            <<"relativeLocation", RelativeLocation>> >>),
                   Props(<< <<"forecast", JStr(ForecastUrl)>> >>),
                   Props(<< <<"periods", JList(Periods(2))>> >>),
                   Features(JList(<<Alert(1)>>)) }]

NextConcurrent ==
    \E c \in Calls :
        \/ CallForecast(c)
        \/ CallAlerts(c)
        \/ RecvGetAmong(c, ConcurrentOutcomes)
        \/ WakeUp(c)
        \/ ForecastPoints(c)
        \/ ForecastPeriods(c)
        \/ AlertsFeatures(c)

SpecConcurrent == Init /\ [][NextConcurrent]_vars

(***************************************************************************)
(* The HTTP proxy, main.py: GET /get_forecast launches the MCP server over *)
(* stdio, calls the tool get_forecast in it and answers with its result.   *)
(***************************************************************************)
\* what can go wrong between the proxy and the MCP server process
BridgeErrors == { "Client failed to connect", "Connection closed" }

\* main.py lines 39: the endpoint returns the tool's result
Responded(b, response) ==
    [b EXCEPT !.pc = "responded", !.sent = @ + 1, !.response = response]

\* mutant: the session is closed after a good call only, an exception
\* leaves it open
ToolRaised_NoClose(b, e) ==
    Responded(b, [status |-> 500, detail |-> e])

\* main.py lines 20-28, 40-41: an exception leaves the async with block,
\* which closes the session; it is logged, raised again and turned into
\* HTTPException(500, detail=str(e))
ToolRaised(b, e) ==
    Responded([b EXCEPT !.session = "closed"], [status |-> 500, detail |-> e])

\* main.py lines 23-25, 39: call_tool returned; the async with block closes
\* the session and the endpoint returns the body
ToolReturned(b, text) ==
    Responded([b EXCEPT !.session = "closed"],
              [status |-> 200, body |-> [tool |-> "get_forecast", result |-> text]])

\* main.py lines 30-37, 13-20: the request arrives and the proxy awaits the
\* launch of the MCP server
ProxyRequest(c) ==
    /\ bridge[c].pc = "idle"
    /\ tool[c] = "none"
    /\ \E latitude \in Latitudes, longitude \in Longitudes :
          /\ bridge' = [bridge EXCEPT ![c] = [@ EXCEPT !.pc = "connecting"]]
          /\ args' = [args EXCEPT ![c] = [latitude |-> latitude, longitude |-> longitude]]
    /\ UNCHANGED <<tool, tpc, nws, fetched, points_data, result>>

\* main.py lines 20-23: the session is open and call_tool is awaited, the
\* server starting get_forecast with the arguments of the request
ProxyConnected(c) ==
    /\ bridge[c].pc = "connecting"
    /\ bridge' = [bridge EXCEPT ![c] = [@ EXCEPT !.pc = "calling", !.session = "open"]]
    /\ ForecastCalled(c, args[c].latitude, args[c].longitude)
    /\ UNCHANGED <<fetched, points_data, result>>

\* main.py lines 20, 26-28, 40-41: the launch of the server fails
ProxyConnectFails(c) ==
    /\ bridge[c].pc = "connecting"
    /\ \E e \in BridgeErrors :
          bridge' = [bridge EXCEPT ![c] = ToolRaised(@, e)]
    /\ UNCHANGED <<tool, tpc, args, nws, fetched, points_data, result>>

\* main.py lines 23-25, 39: the tool has returned its text
ProxyToolReturns(c) ==
    /\ bridge[c].pc = "calling"
    /\ tool[c] = "get_forecast" /\ tpc[c] = "done"
    /\ bridge' = [bridge EXCEPT ![c] =
                     IF result[c].kind = "return"
                     THEN ToolReturned(@, result[c].text)
                     ELSE ToolRaised(@, result[c].msg)]
    /\ UNCHANGED <<tool, tpc, args, nws, fetched, points_data, result>>

\* main.py lines 23, 26-28, 40-41: call_tool raises while the tool runs
ProxyToolFails(c) ==
    /\ bridge[c].pc = "calling"
    /\ \E e \in BridgeErrors :
          bridge' = [bridge EXCEPT ![c] = ToolRaised(@, e)]
    /\ UNCHANGED <<tool, tpc, args, nws, fetched, points_data, result>>

\* the MCP server process runs the tool while the session is open
ServerStep(c) ==
    /\ bridge[c].pc = "calling"
    /\ \/ RecvGet(c)
       \/ WakeUp(c)
       \/ ForecastPoints(c)
       \/ ForecastPeriods(c)

NextProxy == \/ ProxyRequest(1)
             \/ ProxyConnected(1)
             \/ ProxyConnectFails(1)
             \/ ServerStep(1)
             \/ ProxyToolReturns(1)
             \/ ProxyToolFails(1)

SpecProxy == Init /\ [][NextProxy]_vars

(***************************************************************************)
(* Reading the log of a make_nws_request invocation.                       *)
(***************************************************************************)
Log(c) == nws[c].log

IsGet(e) == e.op = "GET"
IsSleep(e) == e.op = "sleep"
IsResp(e) == e.op = "resp"

GetCount(c) == Cardinality({i \in DOMAIN Log(c) : IsGet(Log(c)[i])})
SleepCount(c) == Cardinality({i \in DOMAIN Log(c) : IsSleep(Log(c)[i])})

\* the response logged at position i ends the invocation with `value`:
\* the next event is the return, nothing follows it
EndsFetchAt(c, i, value) ==
    /\ Len(Log(c)) = i + 1
    /\ Log(c)[i + 1].op = "return"
    /\ nws[c].pc = "returned"
    /\ nws[c].ret = value

\* the response logged at position i, to attempt k, is followed by a backoff
\* sleep and, once the sleep is over, by attempt k + 1
RetriedAt(c, i) ==
    /\ Len(Log(c)) >= i + 1
    /\ IsSleep(Log(c)[i + 1])
    /\ Len(Log(c)) >= i + 2 =>
          /\ IsGet(Log(c)[i + 2])
          /\ Log(c)[i + 2].attempt = Log(c)[i].attempt + 1

StatusResp(e) == IsResp(e) /\ IsResponse(e.out)
ExcResp(e) == IsResp(e) /\ ~IsResponse(e.out)

\* a non-2xx status outside {429, 500, 502, 503, 504}
FatalStatusResp(e) ==
    /\ StatusResp(e)
    /\ ~(e.out.status \in 200..299)
    /\ ~(e.out.status \in {429, 500, 502, 503, 504})

\* a status in {429, 500, 502, 503, 504}
ListedStatusResp(e) == StatusResp(e) /\ e.out.status \in {429, 500, 502, 503, 504}

\* a 2xx response whose body decodes to a JSON object
ObjectResp(e) ==
    StatusResp(e) /\ e.out.status \in 200..299 /\ e.out.body.t = "dict"

\* a 2xx response whose body does not decode, or decodes to a non-object
MalformedResp(e) ==
    StatusResp(e) /\ e.out.status \in 200..299 /\ e.out.body.t # "dict"

\* a retryable failure in the sense of the fetcher's contract
RetryableResp(e) ==
    \/ ListedStatusResp(e)
    \/ ExcResp(e) /\ e.out.exc \in {"RequestError", "TimeoutError"}

Resps(c) == {i \in DOMAIN Log(c) : IsResp(Log(c)[i])}
Sleeps(c) == {i \in DOMAIN Log(c) : IsSleep(Log(c)[i])}

(***************************************************************************)
(* Claims about make_nws_request.                                          *)
(***************************************************************************)
\* C1: a non-2xx status outside {429,500,502,503,504}, on whatever attempt
\* it arrives, ends the fetch at once with the failure result None: the
\* return follows the response directly, no sleep and no further GET is
\* logged, and when it is the first attempt exactly one GET was made.
C1_FatalStatusEndsFetch ==
    \A c \in Calls : \A i \in DOMAIN Log(c) :
        FatalStatusResp(Log(c)[i]) =>
            /\ EndsFetchAt(c, i, None)
            /\ GetCount(c) = Log(c)[i].attempt
            /\ SleepCount(c) = Log(c)[i].attempt - 1

\* C1 witness: a 404 on the second attempt, of three allowed, ended the fetch
C1_Witness ==
    \E i \in DOMAIN Log(1) :
        /\ FatalStatusResp(Log(1)[i])
        /\ Log(1)[i].out.status = 404
        /\ Log(1)[i].attempt = 2
        /\ nws[1].max_retries = 3
        /\ nws[1].pc = "returned"

\* C2: when every attempt is answered with a status in
\* {429,500,502,503,504}, the finished fetch has made exactly max_retries
\* GETs; the sleep after attempt 1 lasts backoff_factor, the sleep after
\* attempt k+1 lasts backoff_factor times the sleep after attempt k, and
\* with backoff_factor > 1 each sleep is strictly longer than the one before.
C2_TransientRetriesWithGrowingBackoff ==
    \A c \in Calls :
        (\A i \in Resps(c) : ListedStatusResp(Log(c)[i])) =>
            LET bf == nws[c].backoff_factor IN
            /\ nws[c].pc = "returned" => GetCount(c) = nws[c].max_retries
            /\ \A i \in Resps(c) : Len(Log(c)) > i /\ IsSleep(Log(c)[i + 1])
                                      /\ Log(c)[i + 1].attempt = Log(c)[i].attempt
            /\ \A i \in Sleeps(c) :
                  LET d == Log(c)[i].delay IN
                  /\ Log(c)[i].attempt = 1 => d.num * bf.den = bf.num * d.den
                  /\ \A j \in Sleeps(c) :
                        Log(c)[j].attempt = Log(c)[i].attempt + 1 =>
                            LET e == Log(c)[j].delay IN
                            /\ e.num * (d.den * bf.den) = (d.num * bf.num) * e.den
                            /\ bf.num > bf.den => RatLess(d, e)

\* C2 witness: three transient statuses used up three attempts with factor 1.5
C2_Witness ==
    /\ nws[1].pc = "returned"
    /\ nws[1].max_retries = 3
    /\ nws[1].backoff_factor = [num |-> 3, den |-> 2]
    /\ Resps(1) # {}
    /\ \A i \in Resps(1) : ListedStatusResp(Log(1)[i])
    /\ SleepCount(1) = 3

\* C3 as stated: a 429 or any 5xx status on attempt k < max_retries is
\* followed by a backoff sleep and then by attempt k+1.
C3_Any5xxRetried ==
    \A c \in Calls : \A i \in DOMAIN Log(c) :
        ( /\ StatusResp(Log(c)[i])
          /\ Log(c)[i].out.status \in ({429} \cup (500..599))
          /\ Log(c)[i].attempt < nws[c].max_retries ) => RetriedAt(c, i)

\* C3 amended: a status in {429,500,502,503,504} on attempt k < max_retries
\* is followed by a backoff sleep and then by attempt k+1.
C3_ListedStatusRetried ==
    \A c \in Calls : \A i \in DOMAIN Log(c) :
        ( /\ ListedStatusResp(Log(c)[i])
          /\ Log(c)[i].attempt < nws[c].max_retries ) => RetriedAt(c, i)

\* C3 witness: a 429 on attempt 1 was followed by attempt 2
C3_Witness ==
    \E i \in DOMAIN Log(1) :
        /\ StatusResp(Log(1)[i])
        /\ Log(1)[i].out.status = 429
        /\ Log(1)[i].attempt = 1
        /\ Len(Log(1)) >= i + 2
        /\ IsGet(Log(1)[i + 2])

\* C8: a 2xx response whose body does not decode to a JSON object ends the
\* fetch on that attempt with the failure result None, even when attempts
\* remain: no sleep and no further GET follows it.
C8_MalformedBodyEndsFetch ==
    \A c \in Calls : \A i \in DOMAIN Log(c) :
        MalformedResp(Log(c)[i]) =>
            /\ EndsFetchAt(c, i, None)
            /\ GetCount(c) = Log(c)[i].attempt

\* C8 witness: a JSON list arrived on attempt 1 of 3 and the fetch returned
C8_Witness ==
    \E i \in DOMAIN Log(1) :
        /\ MalformedResp(Log(1)[i])
        /\ Log(1)[i].out.body.t = "list"
        /\ Log(1)[i].attempt = 1
        /\ nws[1].max_retries = 3
        /\ nws[1].pc = "returned"

\* C9: a 2xx response with a JSON object body makes the fetch return that
\* object: the return follows directly, no later GET and no sleep after it,
\* whatever the earlier attempts ended in.
C9_ObjectBodyReturned ==
    \A c \in Calls : \A i \in DOMAIN Log(c) :
        ObjectResp(Log(c)[i]) =>
            /\ EndsFetchAt(c, i, Log(c)[i].out.body)
            /\ GetCount(c) = Log(c)[i].attempt
            /\ SleepCount(c) = Log(c)[i].attempt - 1

\* C9 witness: after a network error and a 503, attempt 3 got an object
C9_Witness ==
    \E i \in DOMAIN Log(1) :
        /\ ObjectResp(Log(1)[i])
        /\ Log(1)[i].attempt = 3
        /\ \E j, k \in 1..i : /\ ExcResp(Log(1)[j])
                               /\ ListedStatusResp(Log(1)[k])
        /\ nws[1].ret = Log(1)[i].out.body

\* the safety part of C10, in every state
BoundedAttempts(c) ==
    /\ GetCount(c) <= nws[c].max_retries
    /\ \A i \in Resps(c) :
          (ExcResp(Log(c)[i]) /\ Log(c)[i].out.exc \in {"RequestError", "TimeoutError"}
           /\ Log(c)[i].attempt < nws[c].max_retries) => RetriedAt(c, i)
    /\ (nws[c].pc = "returned" /\ \A i \in Resps(c) : RetryableResp(Log(c)[i])) =>
          /\ GetCount(c) = nws[c].max_retries
          /\ nws[c].ret = None

\* C10: every invocation of make_nws_request returns; it never makes more
\* than max_retries GETs; a network error or a timeout with attempts left
\* is followed by the next attempt; and when every attempt ended in a
\* retryable failure, exactly max_retries GETs were made and None is
\* returned.
C10_TerminatesWithinMaxRetries ==
    /\ [](\A c \in Calls : BoundedAttempts(c))
    /\ \A c \in Calls : (nws[c].pc # "idle") ~> (nws[c].pc = "returned")

\* C10 witness: a network error, a timeout and a 502 used up three attempts
C10_Witness ==
    /\ nws[1].pc = "returned"
    /\ nws[1].max_retries = 3
    /\ GetCount(1) = 3
    /\ nws[1].ret = None
    /\ \A i \in Resps(1) : RetryableResp(Log(1)[i])
    /\ \E i, j, k \in Resps(1) :
          /\ ExcResp(Log(1)[i]) /\ Log(1)[i].out.exc = "RequestError"
          /\ ExcResp(Log(1)[j]) /\ Log(1)[j].out.exc = "TimeoutError"
          /\ ListedStatusResp(Log(1)[k])

(***************************************************************************)
(* Claims about get_forecast and get_alerts.                               *)
(***************************************************************************)
StartsWith(s, prefix) ==
    Len(s) >= Len(prefix) /\ SubSeq(s, 1, Len(prefix)) = prefix

Contains(s, part) ==
    \E i \in 1..(Len(s) - Len(part) + 1) : SubSeq(s, i, i + Len(part) - 1) = part

Done(c, name) == tool[c] = name /\ tpc[c] = "done"

\* a fetch of the primary source, the NWS API
IsPrimaryFetch(f) == f.url.t = "str" /\ StartsWith(f.url.s, NWS_API_BASE)

\* a fetch of any other source
IsFallbackFetch(f) == ~IsPrimaryFetch(f)

\* a text that reports a failure rather than a forecast
IsFailureText(text) ==
    \/ StartsWith(text, "Unable to fetch")
    \/ StartsWith(text, "Forecast URL missing")
    \/ StartsWith(text, "Forecast data is empty")
    \/ StartsWith(text, "Internal error")

\* a text that says that both sources failed
MentionsBothSources(text) == Contains(text, "both") \/ Contains(text, "Both")

\* C4: when the points fetch of a finished get_forecast call returned the
\* failure result, a fetch of the fallback source follows it, and when a
\* fallback fetch returned an object the text returned is not a failure
\* message.
C4_FallbackAfterPrimaryFailure ==
    \A c \in Calls :
        (Done(c, "get_forecast") /\ fetched[c][1].ret = None) =>
            /\ \E i \in DOMAIN fetched[c] : i > 1 /\ IsFallbackFetch(fetched[c][i])
            /\ \A i \in DOMAIN fetched[c] :
                  (i > 1 /\ IsFallbackFetch(fetched[c][i]) /\ fetched[c][i].ret # None)
                      => ~IsFailureText(result[c].text)

\* C5: when a primary fetch of a finished get_forecast call failed and no
\* fallback fetch succeeded, the returned text says that both sources failed.
C5_BothFailedIsStated ==
    \A c \in Calls :
        ( /\ Done(c, "get_forecast")
          /\ \E i \in DOMAIN fetched[c] :
                IsPrimaryFetch(fetched[c][i]) /\ fetched[c][i].ret = None
          /\ ~\E i \in DOMAIN fetched[c] :
                IsFallbackFetch(fetched[c][i]) /\ fetched[c][i].ret # None )
        => MentionsBothSources(result[c].text)

\* C6: get_forecast never raises: no state of a get_forecast call holds a
\* raised exception as its result, and a finished call holds a returned,
\* non-empty text, whatever the fetches returned and whatever exception
\* the processing of the bodies raised.
C6_ForecastNeverRaises ==
    \A c \in Calls :
        tool[c] = "get_forecast" =>
            /\ result[c].kind # "raise"
            /\ tpc[c] = "done" => (result[c].kind = "return" /\ Len(result[c].text) > 0)

\* C6 witness: the forecast body had 'properties': null, the AttributeError
\* raised on it came back as a text
C6_Witness ==
    /\ Done(1, "get_forecast")
    /\ Len(fetched[1]) = 2
    /\ fetched[1][2].ret = Dict(<< <<"properties", None>> >>)
    /\ result[1].kind = "return"
    /\ StartsWith(result[1].text, "Internal error fetching forecast: 'NoneType'")

\* C7: get_alerts never raises: no state of a get_alerts call holds a raised
\* exception as its result, and a finished call holds a returned text.
C7_AlertsNeverRaises ==
    \A c \in Calls :
        tool[c] = "get_alerts" =>
            /\ result[c].kind # "raise"
            /\ tpc[c] = "done" => result[c].kind = "return"

(***************************************************************************)
(* Further claims about make_nws_request.                                  *)
(***************************************************************************)
\* C11: a backoff sleep happens only between attempts: every sleep belongs to
\* an attempt that is not the last one allowed, and what follows a sleep in
\* the log is the next GET.
C11_SleepOnlyBetweenAttempts ==
    \A c \in Calls : \A i \in Sleeps(c) :
        /\ Log(c)[i].attempt < nws[c].max_retries
        /\ Len(Log(c)) > i => IsGet(Log(c)[i + 1])

\* C15: the HTTP client of make_nws_request: at most one is open at any
\* time, one is open exactly while a GET is awaited, none is open during a
\* backoff sleep and none once the fetch has returned, by whatever path.
C15_ClientReleased ==
    \A c \in Calls :
        /\ nws[c].clients \in {0, 1}
        /\ nws[c].clients = 1 <=> nws[c].pc = "get"
        /\ nws[c].pc \in {"sleep", "returned"} => nws[c].clients = 0

\* C15 witness: the second attempt raised an unexpected exception after a
\* retried timeout, the fetch has returned and no client is open
C15_Witness ==
    /\ nws[1].pc = "returned"
    /\ nws[1].clients = 0
    /\ \E i, j \in Resps(1) :
          /\ ExcResp(Log(1)[i]) /\ Log(1)[i].out.exc = "TimeoutError" /\ Log(1)[i].attempt = 1
          /\ ExcResp(Log(1)[j]) /\ Log(1)[j].out.exc = "Exception" /\ Log(1)[j].attempt = 2

\* C20: an attempt that raises an exception that is neither a request
\* error, nor a status error, nor a timeout ends the fetch at once: the
\* invocation returns None (nothing is raised to the caller), no sleep and
\* no further GET follows, even when attempts remain.
C20_UnexpectedExceptionEndsFetch ==
    \A c \in Calls : \A i \in DOMAIN Log(c) :
        (ExcResp(Log(c)[i]) /\ ~(Log(c)[i].out.exc \in {"RequestError", "TimeoutError"})) =>
            /\ EndsFetchAt(c, i, None)
            /\ GetCount(c) = Log(c)[i].attempt
            /\ SleepCount(c) = Log(c)[i].attempt - 1

\* C20 witness: an unexpected exception on attempt 1 of 3 ended the fetch
C20_Witness ==
    \E i \in Resps(1) :
        /\ ExcResp(Log(1)[i])
        /\ Log(1)[i].out.exc = "Exception"
        /\ Log(1)[i].attempt = 1
        /\ nws[1].max_retries = 3
        /\ nws[1].pc = "returned"

\* the response that ended the invocation of call c
LastResp(c) == Log(c)[Len(Log(c)) - 1]

EndedOnFatalStatus(c) ==
    /\ nws[c].pc = "returned"
    /\ Len(Log(c)) >= 2
    /\ FatalStatusResp(LastResp(c))

\* a failure value from which the caller can read the status code
CarriesStatus(v, code) == "status" \in DOMAIN v /\ v.status = code

Occurrences(s, part) ==
    {i \in 1..(Len(s) - Len(part) + 1) : SubSeq(s, i, i + Len(part) - 1) = part}

\* the position of the k-th occurrence of part in s
NthOccurrence(s, part, k) ==
    CHOOSE i \in Occurrences(s, part) :
        Cardinality({j \in Occurrences(s, part) : j <= i}) = k

\* every period block of the summary opens with this heading mark
BlockMark == SunGlyph \o " **"
BlockCount(text) == Cardinality(Occurrences(text, BlockMark))

\* the periods a forecast response supplies: the list under
\* properties.periods when its entries are objects, else nothing
SuppliedPeriods(body) ==
    IF /\ body.t = "dict" /\ "properties" \in DOMAIN body.d
       /\ body.d["properties"].t = "dict"
       /\ "periods" \in DOMAIN body.d["properties"].d
       /\ body.d["properties"].d["periods"].t = "list"
       /\ \A i \in DOMAIN body.d["properties"].d["periods"].l :
             body.d["properties"].d["periods"].l[i].t = "dict"
    THEN body.d["properties"].d["periods"].l
    ELSE <<>>

Min(a, b) == IF a < b THEN a ELSE b

\* the heading of the block of period p
Heading(p) ==
    BlockMark \o (IF "name" \in DOMAIN p.d THEN Str(p.d["name"]) ELSE "Unknown period")
    \o "**\n"

\* C12: the text returned by get_forecast never holds more than 5 period
\* blocks; when the forecast response supplies n >= 1 periods and the
\* forecast is returned, the text holds exactly min(n, 5) blocks, the k-th
\* block being that of the k-th upstream period.
C12_AtMostFivePeriods ==
    \A c \in Calls :
        Done(c, "get_forecast") =>
            /\ BlockCount(result[c].text) <= 5
            /\ (Len(fetched[c]) = 2 /\ ~StartsWith(result[c].text, "Internal error")) =>
                  LET periods == SuppliedPeriods(fetched[c][2].ret)
                      n == Len(periods)
                      text == result[c].text
                  IN n >= 1 =>
                       /\ BlockCount(text) = Min(n, 5)
                       /\ \A k \in 1..Min(n, 5) :
                             LET at == NthOccurrence(text, BlockMark, k) IN
                             SubSeq(text, at, at + Len(Heading(periods[k])) - 1)
                                 = Heading(periods[k])

\* C12 witness: 7 periods upstream, 5 blocks under the city and state
C12_Witness ==
    /\ Done(1, "get_forecast")
    /\ Len(fetched[1]) = 2
    /\ Len(SuppliedPeriods(fetched[1][2].ret)) = 7
    /\ BlockCount(result[1].text) = 5
    /\ StartsWith(result[1].text, PinGlyph \o " Forecast for Washington, DC\n\n")

\* the value under 'features' of an alerts response
HasFeatures(data) == data.t = "dict" /\ "features" \in DOMAIN data.d

\* the features of an alerts response, when they are a list of objects
\* each carrying a 'properties' object
WellFormedFeatures(data) ==
    /\ HasFeatures(data)
    /\ data.d["features"].t = "list"
    /\ \A i \in DOMAIN data.d["features"].l :
          LET f == data.d["features"].l[i] IN
          /\ f.t = "dict"
          /\ "properties" \in DOMAIN f.d
          /\ f.d["properties"].t = "dict"

\* the first line of the block of feature f
EventLine(f) ==
    "\n        Event: "
    \o (IF "event" \in DOMAIN f.d["properties"].d
        THEN Str(f.d["properties"].d["event"]) ELSE "Unknown")
    \o "\n"

\* C13: a finished get_alerts call maps what its fetch returned to its
\* result: an empty 'features' list gives exactly "No active alerts for this
\* state."; a failed fetch or an object without 'features' gives exactly
\* "Unable to fetch alerts or no alerts found."; k >= 1 features (objects
\* with a 'properties' object) give k blocks, one per feature in order,
\* joined by k - 1 separators.
C13_AlertsOutcomeMapping ==
    \A c \in Calls :
        Done(c, "get_alerts") =>
            LET data == fetched[c][1].ret IN
            /\ (HasFeatures(data) /\ data.d["features"] = EmptyList) =>
                  result[c] = [kind |-> "return", text |-> "No active alerts for this state."]
            /\ (data = None \/ ~HasFeatures(data)) =>
                  result[c] = [kind |-> "return",
                               text |-> "Unable to fetch alerts or no alerts found."]
            /\ (WellFormedFeatures(data) /\ Len(data.d["features"].l) >= 1) =>
                  LET feats == data.d["features"].l
                      k == Len(feats) IN
                  /\ result[c].kind = "return"
                  /\ Cardinality(Occurrences(result[c].text, "        Event: ")) = k
                  /\ Cardinality(Occurrences(result[c].text, "\n---\n")) = k - 1
                  /\ \A j \in 1..k :
                        LET at == NthOccurrence(result[c].text, "\n        Event: ", j) IN
                        SubSeq(result[c].text, at, at + Len(EventLine(feats[j])) - 1)
                            = EventLine(feats[j])

\* C13 witness: two features gave two blocks around one separator
C13_Witness ==
    /\ Done(1, "get_alerts")
    /\ WellFormedFeatures(fetched[1][1].ret)
    /\ Len(fetched[1][1].ret.d["features"].l) = 2
    /\ result[1].kind = "return"
    /\ Cardinality(Occurrences(result[1].text, "\n---\n")) = 1

\* a points body (a JSON object) that carries no forecast URL: it has no
\* 'properties', or its 'properties' object has no 'forecast'
NoForecastUrl(body) ==
    /\ body.t = "dict"
    /\ \/ ~("properties" \in DOMAIN body.d)
       \/ /\ body.d["properties"].t = "dict"
          /\ ~("forecast" \in DOMAIN body.d["properties"].d)

\* the forecast URL a points body carries, None when it carries none
CarriedUrl(body) ==
    IF /\ body.t = "dict" /\ "properties" \in DOMAIN body.d
       /\ body.d["properties"].t = "dict"
       /\ "forecast" \in DOMAIN body.d["properties"].d
    THEN body.d["properties"].d["forecast"]
    ELSE None

\* C14: when the points fetch returned a JSON object that carries no
\* forecast URL, whatever its keys, even none, get_forecast returns the
\* missing-forecast-URL text, not the text of a failed points fetch.
C14_MissingUrlIsDistinct ==
    \A c \in Calls :
        (Done(c, "get_forecast") /\ NoForecastUrl(fetched[c][1].ret)) =>
            /\ StartsWith(result[c].text, "Forecast URL missing in NWS response.")
            /\ ~StartsWith(result[c].text, "Unable to fetch forecast grid point")

\* C18: the fetches of one get_forecast call are sequential and ordered:
\* while the points fetch is awaited nothing else has been fetched; the
\* forecast fetch exists only after the points fetch returned an object
\* carrying a non-empty forecast URL, and it fetches that URL; a call whose
\* points fetch failed or carried no URL ends with that one fetch; at most
\* one GET of the call is in flight.
C18_FetchesSequential ==
    \A c \in Calls :
        tool[c] = "get_forecast" =>
            /\ nws[c].clients <= 1
            /\ Len(fetched[c]) <= 2
            /\ tpc[c] = "await_points" =>
                  /\ fetched[c] = <<>>
                  /\ nws[c].url = PointsUrl(args[c].latitude, args[c].longitude)
            /\ (tpc[c] = "await_forecast" \/ Len(fetched[c]) = 2) =>
                  /\ Len(fetched[c]) >= 1
                  /\ fetched[c][1].ret # None
                  /\ Truthy(CarriedUrl(fetched[c][1].ret))
                  /\ nws[c].url = CarriedUrl(fetched[c][1].ret)
            /\ tpc[c] = "await_forecast" => Len(fetched[c]) = 1
            /\ (tpc[c] = "done" /\ ~Truthy(CarriedUrl(fetched[c][1].ret))) =>
                  /\ Len(fetched[c]) = 1
                  /\ nws[c].url = PointsUrl(args[c].latitude, args[c].longitude)

\* C18 witness: the forecast fetch is in flight, after the points fetch
\* returned an object with the forecast URL
C18_Witness ==
    /\ tool[1] = "get_forecast"
    /\ tpc[1] = "await_forecast"
    /\ nws[1].pc = "get"
    /\ nws[1].url = JStr(ForecastUrl)
    /\ Len(fetched[1]) = 1
    /\ CarriedUrl(fetched[1][1].ret) = JStr(ForecastUrl)

(***************************************************************************)
(* Claim about the HTTP proxy.                                             *)
(***************************************************************************)
\* C17: a handled GET /get_forecast request has exactly one response, which
\* is either the body {tool: 'get_forecast', result: <tool result>}, the
\* tool call having returned that result, or an HTTP 500 carrying the text
\* of the exception that left the tool call; in both cases the session is
\* not open any more.  No response exists before the request is handled.
C17_ProxyResponse ==
    \A c \in Calls :
        /\ bridge[c].sent <= 1
        /\ bridge[c].pc # "responded" =>
              (bridge[c].sent = 0 /\ bridge[c].response = NoResponse)
        /\ bridge[c].pc = "responded" =>
              /\ bridge[c].sent = 1
              /\ bridge[c].session # "open"
              /\ \/ /\ bridge[c].response.status = 200
                    /\ Done(c, "get_forecast")
                    /\ result[c].kind = "return"
                    /\ bridge[c].response.body =
                          [tool |-> "get_forecast", result |-> result[c].text]
                 \/ /\ bridge[c].response.status = 500
                    /\ bridge[c].response.detail \in BridgeErrors

\* C17 witness: call_tool raised while the tool was awaiting the forecast
\* fetch; the answer is a 500 and the session is closed
C17_Witness ==
    /\ bridge[1].pc = "responded"
    /\ bridge[1].response = [status |-> 500, detail |-> "Connection closed"]
    /\ bridge[1].session = "closed"
    /\ tpc[1] = "await_forecast"

\* everything a call owns: its position, arguments, fetch in progress,
\* completed fetches, locals and result
Own(c) ==
    <<tool[c], tpc[c], args[c], nws[c], fetched[c], points_data[c], result[c]>>

\* the attempts of the call's current fetch are numbered 1, 2, ... in its own
\* log, its counter is the number of its own GETs, and each of its sleeps
\* lasts its own backoff_factor to the power of its own attempt
OwnAttemptsAndDelays(c) ==
    /\ nws[c].pc # "idle" => nws[c].attempt = GetCount(c)
    /\ \A i \in DOMAIN Log(c) :
          /\ IsGet(Log(c)[i]) =>
                Log(c)[i].attempt =
                    Cardinality({j \in 1..i : IsGet(Log(c)[j])})
          /\ IsSleep(Log(c)[i]) =>
                /\ Log(c)[i].attempt =
                      Cardinality({j \in 1..i : IsGet(Log(c)[j])})
                /\ Log(c)[i].delay =
                      BackoffDelay(nws[c].backoff_factor, Log(c)[i].attempt)

\* what the call returns when run alone on its own arguments and the
\* values its own fetches returned
AloneResult(c) ==
    IF tool[c] = "get_alerts"
    THEN Finish(AfterAlerts(fetched[c][1].ret))
    ELSE IF Len(fetched[c]) = 1
         THEN Finish(Guarded(AfterPoints(args[c].latitude, args[c].longitude,
                                         fetched[c][1].ret)))
         ELSE Finish(Guarded(AfterForecast(fetched[c][1].ret, fetched[c][2].ret)))

\* the URL the call's first fetch has when the call runs alone
AloneFirstUrl(c) ==
    IF tool[c] = "get_alerts"
    THEN AlertsUrl(args[c].state)
    ELSE PointsUrl(args[c].latitude, args[c].longitude)

OwnResult(c) ==
    /\ (tool[c] # "none" /\ Len(fetched[c]) >= 1) =>
          fetched[c][1].url = AloneFirstUrl(c)
    /\ (tool[c] = "get_forecast" /\ Len(fetched[c]) >= 1) =>
          points_data[c] = fetched[c][1].ret
    /\ tpc[c] = "done" => result[c] = AloneResult(c)

\* a step is a step of one call and leaves what the other calls own alone
OneCallSteps ==
    \E c \in Calls : \A d \in Calls \ {c} : Own(d)' = Own(d)

\* C19: calls running concurrently, interleaved in any order at their
\* suspension points, share no mutable state: every step changes what one
\* call owns only, each call's attempt counter and backoff delays follow
\* from its own fetch, and a finished call has the result that it has when
\* run alone on its own arguments and the outcomes of its own fetches.
C19_CallsShareNoState ==
    /\ [](\A c \in Calls : OwnAttemptsAndDelays(c) /\ OwnResult(c))
    /\ [][OneCallSteps]_vars

\* a get_forecast call and a get_alerts call, both finished
\* after retries, the forecast call having made both of its fetches
C19_BothFinished ==
    /\ Done(1, "get_forecast")
    /\ Done(2, "get_alerts")
    /\ Len(fetched[1]) = 2
    /\ GetCount(1) = 2
    /\ GetCount(2) = 3
    /\ result[1].kind = "return"
    /\ result[2].kind = "return"
    /\ result[1] # result[2]

\* C19 witness: two calls in flight at once at different attempts: call 1,
\* its points fetch done, asleep before the third attempt of its forecast
\* fetch, call 2 awaiting the first GET of its points fetch
C19_Witness ==
    /\ tool[1] = "get_forecast"
    /\ tpc[1] = "await_forecast"
    /\ nws[1].pc = "sleep"
    /\ nws[1].attempt = 2
    /\ tool[2] = "get_forecast"
    /\ tpc[2] = "await_points"
    /\ nws[2].pc = "get"
    /\ nws[2].attempt = 1

====
